---- MODULE Spec2Model ----
(***************************************************************************)
(* Auto-Flashcards front end: the session-guarded API client (the copies   *)
(* of apiFetchAuthed / apiFetch / fetchWithAuth and the plain fetch call   *)
(* sites), the review session controller (ReviewPage), the profile page    *)
(* (ProfilePage: its mount, deck form, file upload and card generation)    *)
(* and the home page (HomePage: auth state, decks panel, generator).       *)
(***************************************************************************)
EXTENDS Naturals, Sequences, FiniteSets, Bags, TLC

(***************************************************************************)
(* Bounds of the model.                                                    *)
(***************************************************************************)
\* calls of a page that may be pending at the same time
MaxInFlight == 2
\* cap of the graded-card counter (sessionCount)
MaxCount == 2

(***************************************************************************)
(* Values.                                                                 *)
(***************************************************************************)
NoToken == "no-token"
Tokens == {"tokA", "tokB"}

\* error messages of the auth provider (supabase.auth.getSession)
NoError == "no-error"
RefreshTokenMessages == {"Invalid Refresh Token: Not Found"}
OtherProviderMessages == {"Auth session missing"}
ProviderErrors == RefreshTokenMessages \cup OtherProviderMessages

\* what supabase.auth.getSession() resolves to: {data: {session}, error}
ProviderResults ==
    [session : Tokens \cup {NoToken}, error : {NoError}]
        \cup [session : {NoToken}, error : ProviderErrors]

\* the failures the clients raise (Error.message)
NoFailure == "no-failure"
ErrNoSession == "No active session token"
ErrUnauthorized == "Unauthorized (token missing/expired)"
ErrNetwork == "TypeError: Failed to fetch"

\* options.body: undefined, "", a non-empty string (JSON.stringify), FormData, Blob
Bodies == {"undefined", "empty-string", "string", "FormData", "Blob"}
Truthy(body) == body \notin {"undefined", "empty-string"}
IsString(body) == body \in {"empty-string", "string"}

\* options.headers["Content-Type"] as the caller set it
NoCT == "absent"
JsonCT == "application/json"
CallerCTs == {NoCT, JsonCT, "text/plain"}

\* the copies of the client in the repository
Variants ==
    {"reviewAuthed", "statsAuthed", "profileFetch", "localeProfileFetch",
     "fetchWithAuth", "libApiFetch", "plainFetch"}
\* the copies that refuse to send without a token and redirect on 401
Guarded == {"reviewAuthed", "statsAuthed", "profileFetch", "localeProfileFetch"}

\* HTTP outcomes of a dispatched request: a status, or the transport failing
Statuses == {200, 401, 403, 500}
Http(status) == [kind |-> "http", status |-> status]
NetErr == [kind |-> "rejected"]
Responses == {Http(s) : s \in Statuses} \cup {NetErr}
\* nothing returned
NoResp == [kind |-> "none"]
\* nothing handed to fetch()
NoReq == [variant |-> "none"]
\* the session was not read
NoProv == [session |-> NoToken, error |-> "not-read"]

(***************************************************************************)
(* lib/supabaseSession.js                                                  *)
(***************************************************************************)
isRefreshTokenError(error) == error \in RefreshTokenMessages

getSessionSafe(prov) ==
    IF prov.error # NoError
    THEN IF isRefreshTokenError(prov.error)
         THEN [session |-> NoToken, error |-> NoError, signOut |-> TRUE]
         ELSE [session |-> NoToken, error |-> prov.error, signOut |-> FALSE]
    ELSE [session |-> prov.session, error |-> NoError, signOut |-> FALSE]

\* what supabase.auth.getUser() resolves to: {data: {user}, error}
UserResults ==
    [user : BOOLEAN, error : {NoError}] \cup [user : {FALSE}, error : ProviderErrors]

\* getUserSafe handing a refresh-token error on to its caller
getUserSafe_KeepsRefreshError(res) ==
    IF res.error # NoError
    THEN [user |-> FALSE, error |-> res.error, signOut |-> FALSE]
    ELSE [user |-> res.user, error |-> NoError, signOut |-> FALSE]

getUserSafe(res) ==
    IF res.error # NoError
    THEN IF isRefreshTokenError(res.error)
         THEN [user |-> FALSE, error |-> NoError, signOut |-> TRUE]
         ELSE [user |-> FALSE, error |-> res.error, signOut |-> FALSE]
    ELSE [user |-> res.user, error |-> NoError, signOut |-> FALSE]

\* a direct `await supabase.auth.getUser()`
getUser(res) == [user |-> res.user, error |-> res.error, signOut |-> FALSE]

\* how each copy of the profile page reads the user in its mount effect
UserRead(variant, res) ==
    IF variant = "localeProfile" THEN getUserSafe(res) ELSE getUser(res)

\* a direct `await supabase.auth.getSession()`
getSession(prov) ==
    [session |-> prov.session, error |-> prov.error, signOut |-> FALSE]

\* how each copy reads the session
SessionRead(variant, prov) ==
    IF variant \in {"localeProfileFetch", "libApiFetch"}
    THEN getSessionSafe(prov)
    ELSE getSession(prov)

(***************************************************************************)
(* The client up to the dispatch: the token, or the failure raised.        *)
(***************************************************************************)
\* GuardedAuth without the token check: the request goes out in any case
GuardedAuth_SendsAnyway(s) ==
    [dispatch |-> TRUE, token |-> s.session, raise |-> NoFailure,
     nav |-> FALSE, signOut |-> s.signOut]

\* GuardedAuth failing soft: a provider error handled like an absent token
GuardedAuth_FailsSoft(s) ==
    IF s.error # NoError \/ s.session = NoToken
    THEN [dispatch |-> FALSE, token |-> NoToken, raise |-> ErrNoSession,
          nav |-> TRUE, signOut |-> s.signOut]
    ELSE [dispatch |-> TRUE, token |-> s.session, raise |-> NoFailure,
          nav |-> FALSE, signOut |-> s.signOut]

\* apiFetchAuthed / apiFetch of the pages: throw on a provider error, push
\* /login and throw without a token
GuardedAuth(s) ==
    IF s.error # NoError
    THEN [dispatch |-> FALSE, token |-> NoToken, raise |-> s.error,
          nav |-> FALSE, signOut |-> s.signOut]
    ELSE IF s.session = NoToken
    THEN [dispatch |-> FALSE, token |-> NoToken, raise |-> ErrNoSession,
          nav |-> TRUE, signOut |-> s.signOut]
    ELSE [dispatch |-> TRUE, token |-> s.session, raise |-> NoFailure,
          nav |-> FALSE, signOut |-> s.signOut]

\* getAccessToken of the home page: `if (error) return null`
getAccessToken(s) == IF s.error # NoError THEN NoToken ELSE s.session

\* fetchWithAuth, lib apiFetch: send in any case, with the token when there is one
UnguardedAuth(variant, s) ==
    [dispatch |-> TRUE,
     token |-> IF variant = "fetchWithAuth" THEN getAccessToken(s) ELSE s.session,
     raise |-> NoFailure, nav |-> FALSE, signOut |-> s.signOut]

ClientAuth(variant, prov) ==
    IF variant \in Guarded
    THEN GuardedAuth(SessionRead(variant, prov))
    ELSE UnguardedAuth(variant, SessionRead(variant, prov))

(***************************************************************************)
(* The headers each copy puts on the request.                              *)
(***************************************************************************)
\* review apiFetchAuthed, fetchWithAuth: !headers.has("Content-Type") && options.body
ContentTypeByBody(body, ct) ==
    IF ct = NoCT /\ Truthy(body) THEN JsonCT ELSE ct

\* profile apiFetch: ... && typeof options.body === "string"
ContentTypeByString(body, ct) ==
    IF ct = NoCT /\ Truthy(body) /\ IsString(body) THEN JsonCT ELSE ct

ContentType(variant, body, ct) ==
    CASE variant \in {"reviewAuthed", "fetchWithAuth"} -> ContentTypeByBody(body, ct)
      [] variant \in {"profileFetch", "localeProfileFetch"} -> ContentTypeByString(body, ct)
      [] variant = "libApiFetch" -> JsonCT
      [] OTHER -> ct

\* the Authorization header: "Bearer <token>", or no header
Authorization(variant, token) ==
    IF variant = "plainFetch" THEN NoToken ELSE token

\* the request handed to fetch()
Request(variant, path, body, ct, token) ==
    [variant |-> variant, path |-> path, body |-> body,
     auth |-> Authorization(variant, token),
     ctype |-> ContentType(variant, body, ct)]

(***************************************************************************)
(* The client after the dispatch.                                          *)
(***************************************************************************)
\* IsUnauthorized taking every authentication failure for an expired session
IsUnauthorized_AnyAuthFailure(resp) == resp.status \in {401, 403}

\* IsUnauthorized testing the wrong status
IsUnauthorized_Forbidden(resp) == resp.status = 403

\* res.status === 401 -> router.push("/login"); throw
IsUnauthorized(resp) == resp.status = 401

OnResponse(variant, resp) ==
    IF resp = NetErr
    THEN [raise |-> ErrNetwork, nav |-> FALSE, ret |-> NoResp]
    ELSE IF variant \in Guarded /\ IsUnauthorized(resp)
    THEN [raise |-> ErrUnauthorized, nav |-> TRUE, ret |-> NoResp]
    ELSE [raise |-> NoFailure, nav |-> FALSE, ret |-> resp]

(***************************************************************************)
(* Values of the review page.                                              *)
(***************************************************************************)
\* selectedDeckId is a string: "" when no deck is selected, else String(id)
NoDeck == ""
DeckIds == {"1", "2"}
\* what GET /decks/ may answer, as the ids in the order of the list
DeckLists == {<<>>, <<"1", "2">>, <<"2", "1">>}

\* currentCard: null, or the ReviewCard the backend returned for a deck
NoCard == [null |-> TRUE]
CardIds == {7, 9}
Cards(deck) == {[id |-> c, deck |-> deck] : c \in CardIds}

\* the grades submitted here: Again (0) and Good (4) of the four buttons
\* (0, 3, 4, 5); the grade only travels in the request body
Grades == {0, 4}

\* the messages the page sets
NoMessage == ""
ErrSelectDeck == "Please select a deck first."
InfoNoDue == "No due cards today for this deck."
InfoFinished == "Session finished for this deck."

\* `Failed to load decks: ${res.status}` and its siblings
HttpError(kind, status) ==
    CASE kind = "decks" ->
             (CASE status = 401 -> "Failed to load decks: 401"
                [] status = 403 -> "Failed to load decks: 403"
                [] OTHER -> "Failed to load decks: 500")
      [] kind = "next" ->
             (CASE status = 401 -> "Error loading next card: 401"
                [] status = 403 -> "Error loading next card: 403"
                [] OTHER -> "Error loading next card: 500")
      [] OTHER ->
             (CASE status = 401 -> "Error submitting answer: 401"
                [] status = 403 -> "Error submitting answer: 403"
                [] OTHER -> "Error submitting answer: 500")

\* res.ok
ResOk(resp) == resp.status \in 200..299

\* an async call of the page: loadDecks, loadNextCard or handleAnswer, with
\* the values its closure captured, awaiting the session ("session") or the
\* response ("fetch"); count records the graded counter at the time of the call
NoCall == [kind |-> "none"]
NewCall(kind, deck, card, grade, count) ==
    [kind |-> kind, deck |-> deck, card |-> card, grade |-> grade,
     count |-> count, pc |-> "session"]
DecksCall == NewCall("decks", NoDeck, NoCard, 0, 0)
NextCall(deck) == NewCall("next", deck, NoCard, 0, 0)
AnswerCall(deck, card, grade, count) == NewCall("answer", deck, card, grade, count)

\* what the backend may answer to a call: the JSON of a 200, any payload with a
\* 401, an error status, or no answer at all (transport error)
HttpData(status, data) == [kind |-> "http", status |-> status, data |-> data]
Payloads(c) == IF c.kind = "decks" THEN DeckLists ELSE Cards(c.deck) \cup {NoCard}
\* the bodies sent with a 401: an empty one and one with data in it
Payloads401(c) ==
    IF c.kind = "decks" THEN {<<>>, <<"2", "1">>}
    ELSE {NoCard, [id |-> 9, deck |-> c.deck]}
ErrorBody(c) == IF c.kind = "decks" THEN <<>> ELSE NoCard
ReviewResponses(c) ==
    {HttpData(200, d) : d \in Payloads(c)}
        \cup {HttpData(401, d) : d \in Payloads401(c)}
        \cup {HttpData(500, ErrorBody(c)), NetErr}

(***************************************************************************)
(* Values of the profile page.                                             *)
(***************************************************************************)
\* the copies of the page: profile/page.js and [locale]/profile/page.js
ProfileVariants == {"profile", "localeProfile"}
\* the client copy each page calls
ClientOf(variant) == IF variant = "profile" THEN "profileFetch" ELSE "localeProfileFetch"

\* selectedFile: null, or a File, of which the page reads the name; a name is
\* the sequence of its characters
NoFile == [null |-> TRUE]
File(name) == [name |-> name]
FileNames ==
    {<<"n", ".", "x", "l", "s", "x">>,
     <<"n", ".", "t", "x", "t">>,
     <<"N", ".", "T", "X", "T">>,
     <<"n", ".", "p", "n", "g">>,
     <<"n", ".", "t", "x", "t", ".", "e", "x", "e">>,
     <<>>}

\* String.prototype.toLowerCase, on the letters the names are made of
LowerChar(c) ==
    CASE c = "N" -> "n"
      [] c = "T" -> "t"
      [] c = "X" -> "x"
      [] OTHER -> c
toLowerCase(name) == [i \in 1..Len(name) |-> LowerChar(name[i])]

\* String.prototype.endsWith
endsWith(name, suffix) ==
    /\ Len(name) >= Len(suffix)
    /\ SubSeq(name, Len(name) - Len(suffix) + 1, Len(name)) = suffix

\* the extensions each copy of handleFileUpload tests for
Extensions(variant) ==
    {<<".", "t", "x", "t">>, <<".", "p", "d", "f">>, <<".", "d", "o", "c", "x">>}
        \cup IF variant = "localeProfile"
             THEN {<<".", "p", "n", "g">>, <<".", "j", "p", "g">>,
                   <<".", "j", "p", "e", "g">>, <<".", "w", "e", "b", "p">>}
             ELSE {}

\* ExtensionOk looking for the extension anywhere in the name
ExtensionOk_Includes(variant, name) ==
    \E ext \in Extensions(variant) :
        \E i \in 1..Len(name) :
            /\ i + Len(ext) - 1 <= Len(name)
            /\ SubSeq(toLowerCase(name), i, i + Len(ext) - 1) = ext

\* const name = (file.name || "").toLowerCase(); const ok = name.endsWith(...) || ...
ExtensionOk(variant, name) ==
    \E ext \in Extensions(variant) : endsWith(toLowerCase(name), ext)

\* the messages of the upload
ErrChooseFile == "Please choose a file first."
ErrNoUser == "No authenticated user."
ErrUnsupported == "Supported files: .txt .pdf .docx"
ErrStorage == "storage error"
NoUploadMessage == [none |-> TRUE]
Uploaded(name) == [uploaded |-> name]

\* what supabase.storage upload() resolves to: {data, error}
StorageResults == {"stored", "error"}
\* what supabase.storage download() resolves to: a Blob, an error, or neither
DownloadResults == {"blob", "error", "no-blob"}

\* the messages of the generation
ErrUploadFirst == "Please upload a file first."
ErrDownload == "Failed to download file from storage."
ErrAiFailed == "AI generate failed: 500"
ErrAiNoCards == "AI returned 0 cards."
ErrTypeError == "TypeError: Cannot read properties of null"
NoStatus == [none |-> TRUE]
\* `Generated and saved ${cards.length} cards to deck #${deckId}.`
Generated(count, deck) == [count |-> count, deck |-> deck]

\* the decks of the profile page whose "generate" button is used
ProfileDecks == {1, 2}
NoDeckId == 0

\* A string of a card is the sequence of its runs of whitespace and of other
\* characters, each with its length; <<>> is "" (and stands for a missing,
\* null or otherwise falsy field, which clipStr turns into "")
Blank(n) == [blank |-> TRUE, len |-> n]
Text(n) == [blank |-> FALSE, len |-> n]

RECURSIVE length(_)
length(str) == IF str = <<>> THEN 0 ELSE Head(str).len + length(Tail(str))

\* String.prototype.slice(0, n)
RECURSIVE slice(_, _)
slice(str, n) ==
    IF str = <<>> \/ n = 0 THEN <<>>
    ELSE IF Head(str).len <= n
    THEN <<Head(str)>> \o slice(Tail(str), n - Head(str).len)
    ELSE <<[Head(str) EXCEPT !.len = n]>>

\* String.prototype.trim
RECURSIVE trimStart(_)
trimStart(str) ==
    IF str # <<>> /\ Head(str).blank THEN trimStart(Tail(str)) ELSE str
RECURSIVE trimEnd(_)
trimEnd(str) ==
    IF str # <<>> /\ str[Len(str)].blank
    THEN trimEnd(SubSeq(str, 1, Len(str) - 1))
    ELSE str
trim(str) == trimEnd(trimStart(str))

MAX_ANSWER_LEN == 2000
MAX_QUESTION_LEN == 500

\* clipStr without the cut
clipStr_NoCut(str, maxLen) == str

\* clipStr(s, maxLen)
clipStr(str, maxLen) ==
    IF str = <<>> THEN <<>>
    ELSE IF length(str) > maxLen THEN slice(str, maxLen) ELSE str

\* the cards POST /ai/generate-file may return: well-formed, over-long,
\* whitespace-only or incomplete ones, and a null element
NullAiCard == [null |-> TRUE]
AiCard(question, answer) == [question |-> question, answer |-> answer]
AiCards ==
    {AiCard(<<Text(3)>>, <<Text(3)>>),
     AiCard(<<Text(501)>>, <<Text(2001)>>),
     AiCard(<<Text(3)>>, <<>>),
     AiCard(<<Blank(500), Text(5)>>, <<Text(3)>>),
     AiCard(<<Text(499), Blank(5)>>, <<Blank(2), Text(2500)>>),
     NullAiCard}

(***************************************************************************)
(* State.                                                                  *)
(***************************************************************************)
VARIABLES
    \* ---- one call of a client copy, from a call site (ClientSpec) ----
    call,           \* the call in progress: its options and where it stands
    wire,           \* the request handed to fetch(), NoReq before the dispatch
    outcome,        \* what the call raised or returned
    signedOut,      \* supabase.auth.signOut() was called
    \* ---- ReviewPage (Spec): its useState cells ----
    decks,          \* the deck list, as the ids in the order received
    selectedDeckId,
    loadingDecks,
    currentCard,
    loadingCard,
    submitting,
    sessionCount,
    error,
    infoMessage,
    showAnswer,
    pending,        \* the page's async calls that have not settled (a bag)
    last,           \* the step just taken: the handler or continuation that ran
    \* ---- ProfilePage (ProfileSpec): its useState cells ----
    pageVariant,    \* which copy of the page is mounted
    user,
    selectedFile,
    uploading,
    uploadError,
    uploadMessage,
    uploadedFiles,
    aiError,
    aiStatus,
    generatingDeckId,
    upload,         \* the file of the pending supabase.storage upload(), or NoFile
    jobs,           \* the handleGenerateFromUpload calls that have not ended (a bag)
    \* ---- ProfilePage from its mount (ProfileLoadSpec): more useState cells ----
    loading,
    newTitle,
    creating,
    \* ---- HomePage (HomeSpec): its useState cells ----
    text,
    cards,
    loadingAI,
    errorAI,
    deckTitle,
    creatingDeck,
    errorDecks,
    toast,
    \* ---- shared ----
    route           \* where router.push() has taken the browser

clientVars == <<call, wire, outcome, signedOut>>
pageVars ==
    <<decks, selectedDeckId, loadingDecks, currentCard, loadingCard, submitting,
      sessionCount, error, infoMessage, showAnswer>>
reviewVars == <<pageVars, pending, last>>
uploadVars ==
    <<selectedFile, uploading, uploadError, uploadMessage, uploadedFiles, upload>>
generateVars == <<aiError, aiStatus, generatingDeckId, jobs>>
profileVars == <<pageVariant, user, uploadVars, generateVars>>
deckFormVars == <<loading, newTitle, creating>>
homeVars ==
    <<text, cards, loadingAI, errorAI, deckTitle, creatingDeck, errorDecks, toast>>
vars == <<clientVars, reviewVars, profileVars, deckFormVars, homeVars, route>>

Origin == "/page"
Login == "/login"

(***************************************************************************)
(* One call of a client copy (ClientSpec).                                 *)
(***************************************************************************)
PathsOf(variant) ==
    CASE variant = "reviewAuthed" -> {"/decks/", "/review/next", "/review/answer"}
      [] variant = "statsAuthed" -> {"/stats/overview"}
      [] variant \in {"profileFetch", "localeProfileFetch"} ->
             {"/decks/", "/decks/{id}", "/decks/{id}/cards"}
      [] OTHER -> {"/decks/"}

\* fetch() called directly by a page: path, body and Content-Type as written there
PlainSites ==
    {[path |-> "/stats/overview", body |-> "undefined", ct |-> NoCT],
     [path |-> "/decks/", body |-> "undefined", ct |-> NoCT],
     [path |-> "/review/next", body |-> "undefined", ct |-> NoCT],
     [path |-> "/review/answer", body |-> "string", ct |-> JsonCT],
     [path |-> "/ai/generate", body |-> "string", ct |-> JsonCT],
     [path |-> "/ai/generate-file", body |-> "FormData", ct |-> NoCT]}

Idle == [pc |-> "idle"]
NoOutcome == [raise |-> NoFailure, ret |-> NoResp]

\* the next call starts from a page of its own
ClientDone == call.pc \in {"idle", "done"}

\* a page calls apiFetchAuthed / apiFetch / fetchWithAuth: the client awaits the session
ClientCall(variant, path, body, ct) ==
    /\ ClientDone
    /\ variant \in Variants \ {"plainFetch"}
    /\ path \in PathsOf(variant)
    /\ call' = [pc |-> "session", variant |-> variant, path |-> path,
                body |-> body, ct |-> ct, prov |-> NoProv, resp |-> NoResp]
    /\ wire' = NoReq
    /\ outcome' = NoOutcome
    /\ route' = Origin
    /\ UNCHANGED <<signedOut, reviewVars, profileVars, deckFormVars, homeVars>>

\* a page calls fetch() itself: the request is on the wire at once
PlainFetch(site) ==
    /\ ClientDone
    /\ call' = [pc |-> "fetch", variant |-> "plainFetch", path |-> site.path,
                body |-> site.body, ct |-> site.ct, prov |-> NoProv,
                resp |-> NoResp]
    /\ wire' = Request("plainFetch", site.path, site.body, site.ct, NoToken)
    /\ outcome' = NoOutcome
    /\ route' = Origin
    /\ UNCHANGED <<signedOut, reviewVars, profileVars, deckFormVars, homeVars>>

\* the provider answers: the client raises, or puts the request on the wire
ClientSession(prov) ==
    /\ call.pc = "session"
    /\ LET a == ClientAuth(call.variant, prov)
       IN /\ signedOut' = (signedOut \/ a.signOut)
          /\ IF a.dispatch
             THEN /\ call' = [call EXCEPT !.pc = "fetch", !.prov = prov]
                  /\ wire' = Request(call.variant, call.path, call.body, call.ct, a.token)
                  /\ UNCHANGED <<outcome, route>>
             ELSE /\ call' = [call EXCEPT !.pc = "done", !.prov = prov]
                  /\ outcome' = [raise |-> a.raise, ret |-> NoResp]
                  /\ route' = IF a.nav THEN Login ELSE route
                  /\ UNCHANGED wire
    /\ UNCHANGED <<reviewVars, profileVars, deckFormVars, homeVars>>

\* fetch() settles: a response of any status, or a transport error
ClientResponse(resp) ==
    /\ call.pc = "fetch"
    /\ LET o == OnResponse(call.variant, resp)
       IN /\ call' = [call EXCEPT !.pc = "done", !.resp = resp]
          /\ outcome' = [raise |-> o.raise, ret |-> o.ret]
          /\ route' = IF o.nav THEN Login ELSE route
    /\ UNCHANGED <<wire, signedOut, reviewVars, profileVars, deckFormVars, homeVars>>

ClientNext ==
    \/ \E v \in Variants, path \in {"/decks/", "/decks/{id}", "/decks/{id}/cards",
                                    "/review/next", "/review/answer", "/stats/overview"},
          body \in Bodies, ct \in CallerCTs : ClientCall(v, path, body, ct)
    \/ \E site \in PlainSites : PlainFetch(site)
    \/ \E prov \in ProviderResults : ClientSession(prov)
    \/ \E resp \in Responses : ClientResponse(resp)

(***************************************************************************)
(* ReviewPage: the handlers.                                               *)
(***************************************************************************)
\* the step just taken
Step(ev, c, resp) == [ev |-> ev, call |-> c, resp |-> resp]

Room == BagCardinality(pending) < MaxInFlight
Add(bag, c) == bag (+) SetToBag({c})
Remove(bag, c) == bag (-) SetToBag({c})

\* DeckChangeEffect calling the loadNextCard of the previous render, whose
\* closure holds the deck selected before
DeckChangeEffect_StaleClosure(deck, calls) ==
    /\ currentCard' = NoCard
    /\ infoMessage' = NoMessage
    /\ error' = NoMessage
    /\ sessionCount' = 0
    /\ loadingCard' = TRUE
    /\ showAnswer' = FALSE
    /\ pending' = Add(calls, NextCall(selectedDeckId))

\* useEffect [selectedDeckId, loadNextCard], run for a new non-empty id: reset
\* the card, the messages and the counter, then loadNextCard() of that render
DeckChangeEffect(deck, calls) ==
    /\ currentCard' = NoCard
    /\ infoMessage' = NoMessage
    /\ error' = NoMessage
    /\ sessionCount' = 0
    /\ loadingCard' = TRUE
    /\ showAnswer' = FALSE
    /\ pending' = Add(calls, NextCall(deck))

\* loadDecks up to its first await
loadDecks ==
    /\ Room
    /\ loadingDecks' = TRUE
    /\ error' = NoMessage
    /\ pending' = Add(pending, DecksCall)
    /\ UNCHANGED <<decks, selectedDeckId, currentCard, loadingCard, submitting,
                   sessionCount, infoMessage, showAnswer>>

\* loadNextCard up to its first await
loadNextCard ==
    IF selectedDeckId = NoDeck
    THEN /\ error' = ErrSelectDeck
         /\ UNCHANGED <<decks, selectedDeckId, loadingDecks, currentCard, loadingCard,
                        submitting, sessionCount, infoMessage, showAnswer, pending>>
    ELSE /\ Room
         /\ loadingCard' = TRUE
         /\ error' = NoMessage
         /\ infoMessage' = NoMessage
         /\ showAnswer' = FALSE
         /\ pending' = Add(pending, NextCall(selectedDeckId))
         /\ UNCHANGED <<decks, selectedDeckId, loadingDecks, currentCard, submitting,
                        sessionCount>>

\* handleAnswer with only the deck checked
AnswerAllowed_DeckOnly == selectedDeckId # NoDeck

\* if (!currentCard || !selectedDeckId) return;
AnswerAllowed == currentCard # NoCard /\ selectedDeckId # NoDeck

\* handleAnswer up to its first await
handleAnswer(grade) ==
    IF ~AnswerAllowed
    THEN UNCHANGED <<pageVars, pending>>
    ELSE /\ Room
         /\ sessionCount < MaxCount
         /\ submitting' = TRUE
         /\ error' = NoMessage
         /\ infoMessage' = NoMessage
         /\ pending' = Add(pending, AnswerCall(selectedDeckId, currentCard, grade, sessionCount))
         /\ UNCHANGED <<decks, selectedDeckId, loadingDecks, currentCard, loadingCard,
                        sessionCount, showAnswer>>

(***************************************************************************)
(* ReviewPage: what the rendered controls let the user do.                 *)
(***************************************************************************)
hasDecks == Len(decks) > 0
canLoad == selectedDeckId # NoDeck /\ ~loadingCard
\* the deck <Select> is rendered
SelectShown == ~loadingDecks /\ hasDecks
\* the card panel with the answer toggle and the grade buttons is rendered
CardShown == ~loadingCard /\ currentCard # NoCard
Options == {decks[i] : i \in 1..Len(decks)}

\* "Reload decks": <Button loading={loadingDecks}>
ReloadDecksClick ==
    /\ ~loadingDecks
    /\ loadDecks
    /\ last' = Step("loadDecks", DecksCall, NoResp)
    /\ UNCHANGED <<clientVars, profileVars, deckFormVars, homeVars, route>>

\* "Load next", "Refresh current", "Next card"
LoadNextClick ==
    /\ canLoad
    /\ loadNextCard
    /\ last' = Step("loadNextCard", NextCall(selectedDeckId), NoResp)
    /\ UNCHANGED <<clientVars, profileVars, deckFormVars, homeVars, route>>

\* the deck <Select>: onChange with another option, then the deck effect
SelectDeck(deck) ==
    /\ SelectShown
    /\ deck \in Options \ {selectedDeckId}
    /\ Room
    /\ selectedDeckId' = deck
    /\ DeckChangeEffect(deck, pending)
    /\ last' = Step("select", NextCall(deck), NoResp)
    /\ UNCHANGED <<decks, loadingDecks, submitting, clientVars, profileVars, deckFormVars, homeVars, route>>

\* "Show answer" / "Hide answer"
ToggleAnswer ==
    /\ CardShown
    /\ showAnswer' = ~showAnswer
    /\ last' = Step("toggle", NoCall, NoResp)
    /\ UNCHANGED <<decks, selectedDeckId, loadingDecks, currentCard, loadingCard,
                   submitting, sessionCount, error, infoMessage, pending,
                   clientVars, profileVars, deckFormVars, homeVars, route>>

\* a grade button: <Button disabled={submitting}>
GradeClick(grade) ==
    /\ CardShown
    /\ ~submitting
    /\ handleAnswer(grade)
    /\ last' = Step("handleAnswer",
                    IF AnswerAllowed THEN AnswerCall(selectedDeckId, currentCard, grade, sessionCount)
                    ELSE NoCall, NoResp)
    /\ UNCHANGED <<clientVars, profileVars, deckFormVars, homeVars, route>>

(***************************************************************************)
(* ReviewPage: the continuations of its async calls.                       *)
(***************************************************************************)
\* Failed with a failed load decks leaving the list and the selection as they were
Failed_KeepsDecks(c, message, nav) ==
    /\ error' = message
    /\ route' = IF nav THEN Login ELSE route
    /\ pending' = Remove(pending, c)
    /\ CASE c.kind = "decks" ->
                /\ loadingDecks' = FALSE
                /\ UNCHANGED <<decks, selectedDeckId, currentCard, loadingCard,
                               submitting, sessionCount, infoMessage, showAnswer>>
         [] c.kind = "next" ->
                /\ currentCard' = NoCard
                /\ loadingCard' = FALSE
                /\ UNCHANGED <<decks, selectedDeckId, loadingDecks, submitting,
                               sessionCount, infoMessage, showAnswer>>
         [] OTHER ->
                /\ submitting' = FALSE
                /\ UNCHANGED <<decks, selectedDeckId, loadingDecks, currentCard,
                               loadingCard, sessionCount, infoMessage, showAnswer>>

\* catch + finally of the call's handler
Failed(c, message, nav) ==
    /\ error' = message
    /\ route' = IF nav THEN Login ELSE route
    /\ pending' = Remove(pending, c)
    /\ CASE c.kind = "decks" ->
                /\ decks' = <<>>
                /\ selectedDeckId' = NoDeck
                /\ loadingDecks' = FALSE
                /\ UNCHANGED <<currentCard, loadingCard, submitting, sessionCount,
                               infoMessage, showAnswer>>
         [] c.kind = "next" ->
                /\ currentCard' = NoCard
                /\ loadingCard' = FALSE
                /\ UNCHANGED <<decks, selectedDeckId, loadingDecks, submitting,
                               sessionCount, infoMessage, showAnswer>>
         [] OTHER ->
                /\ submitting' = FALSE
                /\ UNCHANGED <<decks, selectedDeckId, loadingDecks, currentCard,
                               loadingCard, sessionCount, infoMessage, showAnswer>>

\* FirstId taking the last deck of the list
FirstId_LastDeck(list) == IF Len(list) > 0 THEN list[Len(list)] ELSE NoDeck

\* String(list[0].id), or "" for an empty list
FirstId(list) == IF Len(list) > 0 THEN list[1] ELSE NoDeck

\* loadDecks after res.json(): the list, the first deck, then the deck effect
DecksLoaded(c, list) ==
    /\ decks' = list
    /\ selectedDeckId' = FirstId(list)
    /\ loadingDecks' = FALSE
    /\ UNCHANGED <<submitting, route>>
    /\ IF FirstId(list) # selectedDeckId /\ FirstId(list) # NoDeck
       THEN DeckChangeEffect(FirstId(list), Remove(pending, c))
       ELSE /\ pending' = Remove(pending, c)
            /\ UNCHANGED <<currentCard, infoMessage, error, sessionCount,
                           loadingCard, showAnswer>>

\* loadNextCard after res.json()
NextLoaded(c, card) ==
    /\ IF card = NoCard
       THEN currentCard' = NoCard /\ infoMessage' = InfoNoDue
       ELSE currentCard' = card /\ UNCHANGED infoMessage
    /\ loadingCard' = FALSE
    /\ pending' = Remove(pending, c)
    /\ UNCHANGED <<decks, selectedDeckId, loadingDecks, submitting, sessionCount,
                   error, showAnswer, route>>

\* Answered clearing the card without the "session finished" message
Answered_NoFinishedMessage(c, card) ==
    /\ currentCard' = card
    /\ UNCHANGED infoMessage
    /\ showAnswer' = FALSE
    /\ sessionCount' = sessionCount + 1
    /\ submitting' = FALSE
    /\ pending' = Remove(pending, c)
    /\ UNCHANGED <<decks, selectedDeckId, loadingDecks, loadingCard, error, route>>

\* handleAnswer after res.json()
Answered(c, card) ==
    /\ IF card = NoCard
       THEN currentCard' = NoCard /\ infoMessage' = InfoFinished
       ELSE currentCard' = card /\ UNCHANGED infoMessage
    /\ showAnswer' = FALSE
    /\ sessionCount' = sessionCount + 1
    /\ submitting' = FALSE
    /\ pending' = Remove(pending, c)
    /\ UNCHANGED <<decks, selectedDeckId, loadingDecks, loadingCard, error, route>>

Succeeded(c, data) ==
    CASE c.kind = "decks" -> DecksLoaded(c, data)
      [] c.kind = "next" -> NextLoaded(c, data)
      [] OTHER -> Answered(c, data)

\* apiFetchAuthed after `await supabase.auth.getSession()`
SessionStep(c, prov) ==
    /\ c \in BagToSet(pending)
    /\ c.pc = "session"
    /\ LET a == ClientAuth("reviewAuthed", prov)
       IN IF a.dispatch
          THEN /\ pending' = Add(Remove(pending, c), [c EXCEPT !.pc = "fetch"])
               /\ UNCHANGED <<pageVars, route>>
          ELSE Failed(c, a.raise, a.nav)
    /\ last' = Step("session", c, NoResp)
    /\ UNCHANGED <<clientVars, profileVars, deckFormVars, homeVars>>

\* apiFetchAuthed after `await fetch(...)`, then the handler to its end
ResponseStep(c, resp) ==
    /\ c \in BagToSet(pending)
    /\ c.pc = "fetch"
    /\ LET o == OnResponse("reviewAuthed", resp)
       IN IF o.raise # NoFailure
          THEN Failed(c, o.raise, o.nav)
          ELSE IF ~ResOk(o.ret)
          THEN Failed(c, HttpError(c.kind, o.ret.status), FALSE)
          ELSE Succeeded(c, o.ret.data)
    /\ last' = Step("response", c, resp)
    /\ UNCHANGED <<clientVars, profileVars, deckFormVars, homeVars>>

\* every call the page can have pending
AllCalls ==
    {DecksCall} \cup {NextCall(d) : d \in DeckIds}
        \cup {AnswerCall(d, k, g, n) : d \in DeckIds,
                                       k \in UNION {Cards(e) : e \in DeckIds},
                                       g \in Grades, n \in 0..MaxCount}
Pendings == {[c EXCEPT !.pc = pc] : c \in AllCalls, pc \in {"session", "fetch"}}

Next ==
    \/ ReloadDecksClick
    \/ LoadNextClick
    \/ \E deck \in DeckIds : SelectDeck(deck)
    \/ ToggleAnswer
    \/ \E grade \in Grades : GradeClick(grade)
    \/ \E c \in Pendings, prov \in ProviderResults : SessionStep(c, prov)
    \/ \E c \in Pendings : \E resp \in ReviewResponses(c) : ResponseStep(c, resp)

\* handleAnswer invoked without a displayed card or without a selected deck,
\* which no rendered grade button does when no card is displayed
CallHandleAnswer(grade) ==
    /\ (currentCard = NoCard \/ selectedDeckId = NoDeck)
    /\ handleAnswer(grade)
    /\ last' = Step("handleAnswer", NoCall, NoResp)
    /\ UNCHANGED <<clientVars, profileVars, deckFormVars, homeVars, route>>

\* loadNextCard invoked without a selected deck, which no rendered control
\* does: the load buttons are disabled and the deck effect returns early
CallLoadNextCard ==
    /\ selectedDeckId = NoDeck
    /\ loadNextCard
    /\ last' = Step("loadNextCard", NoCall, NoResp)
    /\ UNCHANGED <<clientVars, profileVars, deckFormVars, homeVars, route>>

CallbackNext ==
    \/ Next
    \/ \E grade \in Grades : CallHandleAnswer(grade)
    \/ CallLoadNextCard

(***************************************************************************)
(* HomePage: values.                                                       *)
(***************************************************************************)
\* const [toast, setToast] = useState(null); pushToast(type, title, message)
NoToast == [type |-> "none"]
Toast(type, title, message) == [type |-> type, title |-> title, message |-> message]

\* the messages the page sets
ErrUnauthorized401 == "Unauthorized (401). Please sign in again."
ErrSignInToCreate == "Please sign in before creating a deck."
ErrTitleRequired == "Deck title is required."
ErrTextRequired == "Please paste a study text first."
ErrCreateFailed == "Failed to create deck"
ErrAiRequest == "AI request failed"
MsgSignInFirst == "Please sign in first."
MsgDeckCreated == "has been created."
MsgNoCards == "No cards were generated."
MsgGenerated == "Generated cards."

MsgCleared == "Text and results cleared."

\* what the user may type into the study text field: nothing, blanks, a text
\* with blanks around it
Texts == {<<>>, <<Blank(2)>>, <<Blank(1), Text(3), Blank(1)>>}
\* data.cards of POST /ai/generate
GeneratedLists == {<<>>, <<"card">>, <<"card", "card">>}

\* an async call of the page: boot() awaiting the user, loadDecks and
\* handleCreateDeck awaiting the token ("session") or the response ("fetch"),
\* handleGenerate awaiting the response; nested marks the loadDecks() that
\* handleCreateDeck awaits, bearer that the request carries a token
HomeCall(kind, pc, arg, nested) ==
    [kind |-> kind, pc |-> pc, arg |-> arg, nested |-> nested, bearer |-> FALSE]
BootCall == HomeCall("boot", "user", <<>>, FALSE)
HomeDecksCall(nested) == HomeCall("decks", "session", <<>>, nested)
HomeCreateCall(title) == HomeCall("create", "session", title, FALSE)
GenerateCall(trimmed) == HomeCall("generate", "fetch", trimmed, FALSE)

\* what the backend may answer to a call of the page: /decks/ needs a bearer
\* token for a 200, /ai/generate does not
HomeResponses(c) ==
    {HttpData(200, d) : d \in CASE c.kind = "decks" /\ c.bearer -> DeckLists
                                [] c.kind = "create" /\ c.bearer -> {"3"}
                                [] c.kind = "generate" -> GeneratedLists
                                [] OTHER -> {}}
        \cup {HttpData(st, <<>>) : st \in {401, 500}} \cup {NetErr}

(***************************************************************************)
(* ProfilePage: the file upload.                                           *)
(***************************************************************************)
\* files kept in uploadedFiles (bounded)
MaxUploads == 1

\* the file <input> / the drop zone: the chosen file (or none) is selected and
\* the upload messages are cleared; handleSelectFile of the locale copy leaves
\* the messages when no file was chosen
SelectFile(file) ==
    /\ selectedFile' = file
    /\ IF pageVariant = "localeProfile" /\ file = NoFile
       THEN UNCHANGED <<uploadError, uploadMessage>>
       ELSE uploadError' = NoMessage /\ uploadMessage' = NoUploadMessage
    /\ last' = Step("selectFile", NoCall, NoResp)
    /\ UNCHANGED <<uploading, uploadedFiles, upload, generateVars, pageVariant, user, deckFormVars, homeVars,
                   clientVars, pageVars, pending, route>>

\* handleFileUpload up to its first await: the checks, then the storage upload
handleFileUpload ==
    /\ aiError' = NoMessage
    /\ aiStatus' = NoStatus
    /\ uploadMessage' = NoUploadMessage
    /\ UNCHANGED <<selectedFile, uploadedFiles, generatingDeckId, jobs>>
    /\ IF selectedFile = NoFile
       THEN uploadError' = ErrChooseFile /\ UNCHANGED <<uploading, upload>>
       ELSE IF ~user
       THEN uploadError' = ErrNoUser /\ UNCHANGED <<uploading, upload>>
       ELSE IF ~ExtensionOk(pageVariant, selectedFile.name)
       THEN /\ uploadError' = ErrUnsupported
            /\ uploading' = FALSE
            /\ UNCHANGED upload
       ELSE /\ Len(uploadedFiles) < MaxUploads
            /\ uploadError' = NoMessage
            /\ uploading' = TRUE
            /\ upload' = selectedFile

\* the upload form submitted: <button type="submit" disabled={uploading || !selectedFile}>
SubmitUpload ==
    /\ ~uploading
    /\ selectedFile # NoFile
    /\ handleFileUpload
    /\ last' = Step("handleFileUpload", [kind |-> "upload", file |-> selectedFile], NoResp)
    /\ UNCHANGED <<pageVariant, user, deckFormVars, homeVars, clientVars, pageVars, pending, route>>

\* supabase.storage.from(BUCKET).upload() settles, then the handler to its end
UploadSettles(result) ==
    /\ upload # NoFile
    /\ IF result = "stored"
       THEN /\ uploadedFiles' = Append(uploadedFiles, upload)
            /\ selectedFile' = NoFile
            /\ uploadMessage' = Uploaded(upload.name)
            /\ UNCHANGED uploadError
       ELSE /\ uploadError' = ErrStorage
            /\ UNCHANGED <<uploadedFiles, selectedFile, uploadMessage>>
    /\ uploading' = FALSE
    /\ upload' = NoFile
    /\ last' = Step("uploadSettled", [kind |-> "upload", file |-> upload], NoResp)
    /\ UNCHANGED <<generateVars, pageVariant, user, deckFormVars, homeVars, clientVars, pageVars, pending, route>>

(***************************************************************************)
(* ProfilePage: generating cards from the uploaded file.                   *)
(***************************************************************************)
\* handleGenerateFromUpload calls that may run at the same time
MaxJobs == 1
\* cards in an answer of POST /ai/generate-file
MaxCards == 2

\* aiJson.cards || []
AiLists == UNION {[1..n -> AiCards] : n \in 0..MaxCards}
\* what fetch(`${API_BASE}/ai/generate-file`) may settle with
AiResponses == {HttpData(200, l) : l \in AiLists} \cup {HttpData(500, <<>>), NetErr}

\* a call of handleGenerateFromUpload: where it stands, the cards of the loop
\* from the current one on, cards.length, the body of its request to
\* POST /decks/${deckId}/cards while that request is on the wire, and how many
\* of its POSTs have come back with res.ok
NoPost == [none |-> TRUE]
NewJob(deck) ==
    [deck |-> deck, pc |-> "download", cards |-> <<>>, count |-> 0, body |-> NoPost,
     saved |-> 0]

\* the question and the answer of the loop body
Question(card) == trim(clipStr(card.question, MAX_QUESTION_LEN))
Answer(card) == trim(clipStr(card.answer, MAX_ANSWER_LEN))

\* if (!question || !answer) continue;
Skipped(card) == Question(card) = <<>> \/ Answer(card) = <<>>

\* the for loop up to its next await: the cards from the first one that is
\* posted on, <<>> when the loop is over, or the TypeError of a null card
RECURSIVE Loop(_)
Loop(rest) ==
    IF rest = <<>> THEN [throws |-> FALSE, cards |-> <<>>]
    ELSE IF Head(rest) = NullAiCard THEN [throws |-> TRUE, cards |-> rest]
    ELSE IF Skipped(Head(rest)) THEN Loop(Tail(rest))
    ELSE [throws |-> FALSE, cards |-> rest]

\* JSON.stringify({ question, answer }) for POST /decks/${deckId}/cards
CardBody(deck, card) ==
    [deck |-> deck, question |-> Question(card), answer |-> Answer(card)]

\* catch + finally of handleGenerateFromUpload
JobFailed(j, message, nav) ==
    /\ aiError' = message
    /\ generatingDeckId' = NoDeckId
    /\ jobs' = Remove(jobs, j)
    /\ route' = IF nav THEN Login ELSE route
    /\ UNCHANGED aiStatus

\* the loop goes on with these cards: to the next POST, or to the deck refresh
JobLoops(j, count, rest, saved) ==
    LET l == Loop(rest)
    IN IF l.throws
       THEN JobFailed(j, ErrTypeError, FALSE)
       ELSE /\ jobs' = Add(Remove(jobs, j),
                           [j EXCEPT !.cards = l.cards,
                                     !.count = count,
                                     !.saved = saved,
                                     !.body = NoPost,
                                     !.pc = IF l.cards = <<>> THEN "refresh-session"
                                            ELSE "post-session"])
            /\ UNCHANGED <<aiError, aiStatus, generatingDeckId, route>>

\* handleGenerateFromUpload up to its first await
handleGenerateFromUpload(deck) ==
    /\ aiStatus' = NoStatus
    /\ UNCHANGED route
    /\ IF Len(uploadedFiles) = 0
       THEN aiError' = ErrUploadFirst /\ UNCHANGED <<generatingDeckId, jobs>>
       ELSE IF ~user
       THEN aiError' = ErrNoUser /\ UNCHANGED <<generatingDeckId, jobs>>
       ELSE /\ BagCardinality(jobs) < MaxJobs
            /\ aiError' = NoMessage
            /\ generatingDeckId' = deck
            /\ jobs' = Add(jobs, NewJob(deck))

\* a deck's "generate from upload" button: disabled={generatingDeckId === deck.id}
GenerateClick(deck) ==
    /\ generatingDeckId # deck
    /\ handleGenerateFromUpload(deck)
    /\ last' = Step("handleGenerateFromUpload", NoCall, NoResp)
    /\ UNCHANGED <<uploadVars, pageVariant, user, deckFormVars, homeVars, clientVars, pageVars, pending>>

\* supabase.storage download() settles
DownloadSettles(j, result) ==
    /\ j \in BagToSet(jobs) /\ j.pc = "download"
    /\ CASE result = "error" -> JobFailed(j, ErrStorage, FALSE)
         [] result = "no-blob" -> JobFailed(j, ErrDownload, FALSE)
         [] OTHER -> /\ jobs' = Add(Remove(jobs, j), [j EXCEPT !.pc = "ai"])
                     /\ UNCHANGED <<aiError, aiStatus, generatingDeckId, route>>
    /\ last' = Step("download", j, NoResp)
    /\ UNCHANGED <<uploadVars, pageVariant, user, deckFormVars, homeVars, clientVars, pageVars, pending>>

\* fetch(`${API_BASE}/ai/generate-file`) settles; with cards the loop starts
AiSettles(j, resp) ==
    /\ j \in BagToSet(jobs) /\ j.pc = "ai"
    /\ IF resp = NetErr THEN JobFailed(j, ErrNetwork, FALSE)
       ELSE IF ~ResOk(resp) THEN JobFailed(j, ErrAiFailed, FALSE)
       ELSE IF Len(resp.data) = 0 THEN JobFailed(j, ErrAiNoCards, FALSE)
       ELSE JobLoops(j, Len(resp.data), resp.data, 0)
    /\ last' = Step("ai", j, resp)
    /\ UNCHANGED <<uploadVars, pageVariant, user, deckFormVars, homeVars, clientVars, pageVars, pending>>

\* apiFetch of the loop or of the deck refresh, after the session was read
JobSession(j, prov) ==
    /\ j \in BagToSet(jobs) /\ j.pc \in {"post-session", "refresh-session"}
    /\ LET a == ClientAuth(ClientOf(pageVariant), prov)
       IN /\ signedOut' = (signedOut \/ a.signOut)
          /\ IF ~a.dispatch
             THEN JobFailed(j, a.raise, a.nav)
             ELSE /\ jobs' = Add(Remove(jobs, j),
                                 IF j.pc = "post-session"
                                 THEN [j EXCEPT !.pc = "post-fetch",
                                                !.body = CardBody(j.deck, Head(j.cards))]
                                 ELSE [j EXCEPT !.pc = "refresh-fetch"])
                  /\ UNCHANGED <<aiError, aiStatus, generatingDeckId, route>>
    /\ last' = Step("session", j, NoResp)
    /\ UNCHANGED <<uploadVars, pageVariant, user, deckFormVars, homeVars, call, wire, outcome, pageVars, pending>>

\* POST /decks/${deckId}/cards settles: a rejected card is logged, the loop goes on
PostResponse(j, resp) ==
    /\ j \in BagToSet(jobs) /\ j.pc = "post-fetch"
    /\ LET o == OnResponse(ClientOf(pageVariant), resp)
       IN IF o.raise # NoFailure
          THEN JobFailed(j, o.raise, o.nav)
          ELSE JobLoops(j, j.count, Tail(j.cards),
                        IF ResOk(o.ret) THEN j.saved + 1 ELSE j.saved)
    /\ last' = Step("response", j, resp)
    /\ UNCHANGED <<uploadVars, pageVariant, user, deckFormVars, homeVars, clientVars, pageVars, pending>>

\* GET /decks/${deckId} settles, then the handler to its end
RefreshResponse(j, resp) ==
    /\ j \in BagToSet(jobs) /\ j.pc = "refresh-fetch"
    /\ LET o == OnResponse(ClientOf(pageVariant), resp)
       IN IF o.raise # NoFailure
          THEN JobFailed(j, o.raise, o.nav)
          ELSE /\ aiStatus' = Generated(j.count, j.deck)
               /\ generatingDeckId' = NoDeckId
               /\ jobs' = Remove(jobs, j)
               /\ UNCHANGED <<aiError, route>>
    /\ last' = Step("response", j, resp)
    /\ UNCHANGED <<uploadVars, pageVariant, user, deckFormVars, homeVars, clientVars, pageVars, pending>>

ProfileNext ==
    \/ \E name \in FileNames : SelectFile(File(name))
    \/ SelectFile(NoFile)
    \/ SubmitUpload
    \/ \E result \in StorageResults : UploadSettles(result)
    \/ \E deck \in ProfileDecks : GenerateClick(deck)
    \/ \E result \in DownloadResults : \E j \in BagToSet(jobs) : DownloadSettles(j, result)
    \/ \E resp \in AiResponses : \E j \in BagToSet(jobs) : AiSettles(j, resp)
    \/ \E prov \in ProviderResults : \E j \in BagToSet(jobs) : JobSession(j, prov)
    \/ \E resp \in Responses : \E j \in BagToSet(jobs) : PostResponse(j, resp)
    \/ \E resp \in Responses : \E j \in BagToSet(jobs) : RefreshResponse(j, resp)

(***************************************************************************)
(* ProfilePage from its mount: the user, the deck list, the deck form.     *)
(***************************************************************************)
\* decks the list may hold (bounded)
MaxDeckList == 3

\* what the user may type into the title field: nothing, blanks, a title
\* with blanks around it
Titles == {<<>>, <<Blank(2)>>, <<Blank(1), Text(3), Blank(1)>>}

\* `Failed to load decks: ${res.status} ...`, `Backend error: ${res.status} ...`
ErrLoadDecks == "Failed to load decks"
ErrBackend == "Backend error"

\* the mount effect's load(), and a call of handleCreateDeck with its title
LoadCall == [kind |-> "load", title |-> <<>>, pc |-> "user"]
CreateCall(title) == [kind |-> "create", title |-> title, pc |-> "session"]
\* the id of the deck the backend creates
Created == "3"
\* what the backend may answer to a call of the page
ProfileResponses(c) ==
    {HttpData(200, d) : d \in IF c.kind = "load" THEN DeckLists ELSE {Created}}
        \cup {HttpData(st, <<>>) : st \in {401, 500}} \cup {NetErr}

\* load(): after `await getUser()`
UserStep(c, res) ==
    /\ c \in BagToSet(pending) /\ c.pc = "user"
    /\ LET r == UserRead(pageVariant, res)
       IN /\ signedOut' = (signedOut \/ r.signOut)
          /\ IF r.error # NoError \/ ~r.user
             THEN /\ route' = Login
                  /\ pending' = Remove(pending, c)
                  /\ UNCHANGED user
             ELSE /\ user' = TRUE
                  /\ pending' = Add(Remove(pending, c), [c EXCEPT !.pc = "session"])
                  /\ UNCHANGED route
    /\ last' = Step("user", c, res)
    /\ UNCHANGED <<call, wire, outcome, pageVars, pageVariant, uploadVars,
                   generateVars, deckFormVars, homeVars>>

\* catch + finally of load() and of handleCreateDeck
ProfileFailed(c, message, nav) ==
    /\ error' = message
    /\ route' = IF nav THEN Login ELSE route
    /\ pending' = Remove(pending, c)
    /\ IF c.kind = "load"
       THEN loading' = FALSE /\ UNCHANGED creating
       ELSE creating' = FALSE /\ UNCHANGED loading
    /\ UNCHANGED <<decks, newTitle>>

\* apiFetch after the session was read
ProfileSession(c, prov) ==
    /\ c \in BagToSet(pending) /\ c.pc = "session"
    /\ LET a == ClientAuth(ClientOf(pageVariant), prov)
       IN /\ signedOut' = (signedOut \/ a.signOut)
          /\ IF a.dispatch
             THEN /\ pending' = Add(Remove(pending, c), [c EXCEPT !.pc = "fetch"])
                  /\ UNCHANGED <<decks, error, loading, newTitle, creating, route>>
             ELSE ProfileFailed(c, a.raise, a.nav)
    /\ last' = Step("session", c, prov)
    /\ UNCHANGED <<call, wire, outcome, selectedDeckId, loadingDecks, currentCard,
                   loadingCard, submitting, sessionCount, infoMessage, showAnswer,
                   pageVariant, user, uploadVars, generateVars, homeVars>>

\* apiFetch after `await fetch(...)`, then load() or handleCreateDeck to its end
ProfileResponse(c, resp) ==
    /\ c \in BagToSet(pending) /\ c.pc = "fetch"
    /\ LET o == OnResponse(ClientOf(pageVariant), resp)
       IN IF o.raise # NoFailure
          THEN ProfileFailed(c, o.raise, o.nav)
          ELSE IF ~ResOk(o.ret)
          THEN ProfileFailed(c, IF c.kind = "load" THEN ErrLoadDecks ELSE ErrBackend,
                             FALSE)
          ELSE /\ pending' = Remove(pending, c)
               /\ UNCHANGED <<error, route>>
               /\ IF c.kind = "load"
                  THEN /\ decks' = o.ret.data
                       /\ loading' = FALSE
                       /\ UNCHANGED <<newTitle, creating>>
                  ELSE /\ decks' = Append(decks, o.ret.data)
                       /\ newTitle' = <<>>
                       /\ creating' = FALSE
                       /\ UNCHANGED loading
    /\ last' = Step("response", c, resp)
    /\ UNCHANGED <<clientVars, selectedDeckId, loadingDecks, currentCard,
                   loadingCard, submitting, sessionCount, infoMessage, showAnswer,
                   pageVariant, user, uploadVars, generateVars, homeVars>>

\* the page shows its forms once load() is over: if (loading) return <spinner>
FormsShown == ~loading

\* the title <input>: onChange={(e) => setNewTitle(e.target.value)}
SetNewTitle(title) ==
    /\ FormsShown
    /\ newTitle' = title
    /\ last' = Step("setNewTitle", NoCall, NoResp)
    /\ UNCHANGED <<clientVars, pageVars, pending, profileVars, loading, creating,
                   homeVars, route>>

\* handleCreateDeck up to its first await: a blank title returns at once
ProfileCreateDeck ==
    IF trim(newTitle) = <<>>
    THEN UNCHANGED <<creating, error, pending>>
    ELSE /\ Len(decks) < MaxDeckList
         /\ creating' = TRUE
         /\ error' = NoMessage
         /\ pending' = Add(pending, CreateCall(trim(newTitle)))

\* the deck form submitted: <input required>, <button type="submit" disabled={creating}>;
\* the browser does not submit the form while the required field is empty
SubmitDeckForm ==
    /\ FormsShown
    /\ ~creating
    /\ newTitle # <<>>
    /\ ProfileCreateDeck
    /\ last' = Step("handleCreateDeck",
                    IF trim(newTitle) = <<>> THEN NoCall ELSE CreateCall(trim(newTitle)),
                    NoResp)
    /\ UNCHANGED <<clientVars, decks, selectedDeckId, loadingDecks, currentCard,
                   loadingCard, submitting, sessionCount, infoMessage, showAnswer,
                   profileVars, loading, newTitle, homeVars, route>>

ProfileLoadNext ==
    \/ \E res \in UserResults : \E c \in BagToSet(pending) : UserStep(c, res)
    \/ \E prov \in ProviderResults : \E c \in BagToSet(pending) : ProfileSession(c, prov)
    \/ \E c \in BagToSet(pending) : \E resp \in ProfileResponses(c) : ProfileResponse(c, resp)
    \/ \E title \in Titles : SetNewTitle(title)
    \/ SubmitDeckForm

(***************************************************************************)
(* HomePage: the auth state, the deck list, the deck form, the generator.  *)
(***************************************************************************)
\* const isAuthed = useMemo(() => Boolean(user?.id), [user])
isAuthed == user

\* loadDecks up to its first await, added to these calls
HomeLoadDecks(calls, nested) ==
    /\ errorDecks' = NoMessage
    /\ loadingDecks' = TRUE
    /\ pending' = Add(calls, HomeDecksCall(nested))

\* boot(): after `await supabase.auth.getUser()`
BootStep(c, res) ==
    /\ c \in BagToSet(pending) /\ c.pc = "user"
    /\ user' = getUser(res).user
    /\ IF getUser(res).user
       THEN HomeLoadDecks(Remove(pending, c), FALSE)
       ELSE /\ pending' = Remove(pending, c)
            /\ UNCHANGED <<errorDecks, loadingDecks>>
    /\ last' = Step("boot", c, res)
    /\ UNCHANGED <<clientVars, decks, selectedDeckId, currentCard, loadingCard,
                   submitting, sessionCount, error, infoMessage, showAnswer,
                   pageVariant, uploadVars, generateVars, deckFormVars, text, cards,
                   loadingAI, errorAI, deckTitle, creatingDeck, toast, route>>

\* the onAuthStateChange listener, called with a session (u) or without one
AuthChange(u) ==
    /\ user' = u
    /\ IF u
       THEN /\ Room
            /\ HomeLoadDecks(pending, FALSE)
            /\ UNCHANGED decks
       ELSE /\ decks' = <<>>
            /\ UNCHANGED <<errorDecks, loadingDecks, pending>>
    /\ last' = Step("authChange", NoCall, NoResp)
    /\ UNCHANGED <<clientVars, selectedDeckId, currentCard, loadingCard,
                   submitting, sessionCount, error, infoMessage, showAnswer,
                   pageVariant, uploadVars, generateVars, deckFormVars, text, cards,
                   loadingAI, errorAI, deckTitle, creatingDeck, toast, route>>

\* "Reload": onClick={() => (isAuthed ? loadDecks() : pushToast(...))}, loading={loadingDecks}
HomeReloadClick ==
    /\ ~loadingDecks
    /\ IF isAuthed
       THEN /\ Room
            /\ HomeLoadDecks(pending, FALSE)
            /\ UNCHANGED toast
       ELSE /\ toast' = Toast("warning", "Sign in required", MsgSignInFirst)
            /\ UNCHANGED <<errorDecks, loadingDecks, pending>>
    /\ last' = Step("loadDecks", IF isAuthed THEN HomeDecksCall(FALSE) ELSE NoCall, NoResp)
    /\ UNCHANGED <<clientVars, decks, selectedDeckId, currentCard, loadingCard,
                   submitting, sessionCount, error, infoMessage, showAnswer,
                   profileVars, deckFormVars, text, cards, loadingAI, errorAI,
                   deckTitle, creatingDeck, route>>

\* the study text and the deck title fields
SetText(value) ==
    /\ text' = value
    /\ last' = Step("setText", NoCall, NoResp)
    /\ UNCHANGED <<clientVars, pageVars, pending, profileVars, deckFormVars, cards,
                   loadingAI, errorAI, deckTitle, creatingDeck, errorDecks, toast,
                   route>>

SetDeckTitle(value) ==
    /\ deckTitle' = value
    /\ last' = Step("setDeckTitle", NoCall, NoResp)
    /\ UNCHANGED <<clientVars, pageVars, pending, profileVars, deckFormVars, text,
                   cards, loadingAI, errorAI, creatingDeck, errorDecks, toast, route>>

\* handleCreateDeck up to its first await
handleCreateDeck ==
    IF ~isAuthed
    THEN /\ errorDecks' = ErrSignInToCreate
         /\ toast' = Toast("warning", "Sign in required", ErrSignInToCreate)
         /\ UNCHANGED <<creatingDeck, pending>>
    ELSE IF trim(deckTitle) = <<>>
    THEN /\ errorDecks' = ErrTitleRequired
         /\ toast' = Toast("warning", "Missing title", ErrTitleRequired)
         /\ UNCHANGED <<creatingDeck, pending>>
    ELSE /\ Room
         /\ Len(decks) < MaxDeckList
         /\ errorDecks' = NoMessage
         /\ creatingDeck' = TRUE
         /\ pending' = Add(pending, HomeCreateCall(trim(deckTitle)))
         /\ UNCHANGED toast

\* "Create deck": <Button loading={creatingDeck} disabled={!isAuthed}>
CreateDeckClick ==
    /\ isAuthed
    /\ ~creatingDeck
    /\ handleCreateDeck
    /\ last' = Step("handleCreateDeck",
                    IF trim(deckTitle) = <<>> THEN NoCall
                    ELSE HomeCreateCall(trim(deckTitle)), NoResp)
    /\ UNCHANGED <<clientVars, decks, selectedDeckId, loadingDecks, currentCard,
                   loadingCard, submitting, sessionCount, error, infoMessage,
                   showAnswer, profileVars, deckFormVars, text, cards, loadingAI,
                   errorAI, deckTitle, route>>

\* handleGenerate up to its first await
handleGenerate ==
    /\ cards' = <<>>
    /\ IF trim(text) = <<>>
       THEN /\ errorAI' = ErrTextRequired
            /\ toast' = Toast("warning", "Missing text", ErrTextRequired)
            /\ UNCHANGED <<loadingAI, pending>>
       ELSE /\ Room
            /\ errorAI' = NoMessage
            /\ loadingAI' = TRUE
            /\ pending' = Add(pending, GenerateCall(trim(text)))
            /\ UNCHANGED toast

\* "Generate": <Button onClick={handleGenerate} loading={loadingAI}>
HomeGenerateClick ==
    /\ ~loadingAI
    /\ handleGenerate
    /\ last' = Step("handleGenerate",
                    IF trim(text) = <<>> THEN NoCall ELSE GenerateCall(trim(text)),
                    NoResp)
    /\ UNCHANGED <<clientVars, pageVars, profileVars, deckFormVars, text, deckTitle,
                   creatingDeck, errorDecks, route>>

\* "Clear"
ClearClick ==
    /\ text' = <<>>
    /\ cards' = <<>>
    /\ errorAI' = NoMessage
    /\ toast' = Toast("success", "Cleared", MsgCleared)
    /\ last' = Step("clear", NoCall, NoResp)
    /\ UNCHANGED <<clientVars, pageVars, pending, profileVars, deckFormVars,
                   loadingAI, deckTitle, creatingDeck, errorDecks, route>>

\* the toast's timer, or its close button: onClose={() => setToast(null)}
ToastClose ==
    /\ toast # NoToast
    /\ toast' = NoToast
    /\ last' = Step("toastClose", NoCall, NoResp)
    /\ UNCHANGED <<clientVars, pageVars, pending, profileVars, deckFormVars, text,
                   cards, loadingAI, errorAI, deckTitle, creatingDeck, errorDecks,
                   route>>

\* fetchWithAuth after `await getAccessToken()`: the request goes out, with
\* the token when there is one
HomeSession(c, prov) ==
    /\ c \in BagToSet(pending) /\ c.pc = "session"
    /\ ClientAuth("fetchWithAuth", prov).dispatch
    /\ pending' = Add(Remove(pending, c),
                      [c EXCEPT !.pc = "fetch",
                                !.bearer = ClientAuth("fetchWithAuth", prov).token # NoToken])
    /\ last' = Step("session", c, prov)
    /\ UNCHANGED <<clientVars, pageVars, profileVars, deckFormVars, homeVars, route>>

\* loadDecks after `await fetchWithAuth(...)`, to its end; a nested call then
\* lets handleCreateDeck reach its finally
DecksAnswered(c, resp) ==
    /\ IF resp = NetErr
       THEN errorDecks' = ErrNetwork /\ UNCHANGED decks
       ELSE IF resp.status = 401
       THEN errorDecks' = ErrUnauthorized401 /\ decks' = <<>>
       ELSE IF ~ResOk(resp)
       THEN errorDecks' = HttpError("decks", resp.status) /\ UNCHANGED decks
       ELSE decks' = resp.data /\ UNCHANGED errorDecks
    /\ loadingDecks' = FALSE
    /\ creatingDeck' = IF c.nested THEN FALSE ELSE creatingDeck
    /\ pending' = Remove(pending, c)
    /\ UNCHANGED <<text, cards, loadingAI, errorAI, deckTitle, toast>>

\* handleCreateDeck after `await fetchWithAuth(...)`: the failure, or the
\* success up to `await loadDecks()`
CreateAnswered(c, resp) ==
    /\ UNCHANGED <<decks, text, cards, loadingAI, errorAI>>
    /\ IF resp # NetErr /\ ResOk(resp)
       THEN /\ deckTitle' = <<>>
            /\ toast' = Toast("success", "Deck created", MsgDeckCreated)
            /\ HomeLoadDecks(Remove(pending, c), TRUE)
            /\ UNCHANGED creatingDeck
       ELSE /\ errorDecks' = (IF resp = NetErr THEN ErrNetwork
                              ELSE IF resp.status = 401 THEN ErrUnauthorized401
                              ELSE ErrCreateFailed)
            /\ toast' = Toast("error", "Create failed", errorDecks')
            /\ creatingDeck' = FALSE
            /\ pending' = Remove(pending, c)
            /\ UNCHANGED <<deckTitle, loadingDecks>>

\* handleGenerate after `await fetch(...)`, to its end
GenerateAnswered(c, resp) ==
    /\ UNCHANGED <<decks, loadingDecks, deckTitle, creatingDeck, errorDecks, text>>
    /\ IF resp # NetErr /\ ResOk(resp)
       THEN /\ cards' = resp.data
            /\ toast' = Toast("success", "Cards generated",
                              IF Len(resp.data) > 0 THEN MsgGenerated ELSE MsgNoCards)
            /\ UNCHANGED errorAI
       ELSE /\ errorAI' = (IF resp = NetErr THEN ErrNetwork ELSE ErrAiRequest)
            /\ toast' = Toast("error", "Generation failed", errorAI')
            /\ UNCHANGED cards
    /\ loadingAI' = FALSE
    /\ pending' = Remove(pending, c)

HomeResponse(c, resp) ==
    /\ c \in BagToSet(pending) /\ c.pc = "fetch"
    /\ CASE c.kind = "decks" -> DecksAnswered(c, resp)
         [] c.kind = "create" -> CreateAnswered(c, resp)
         [] OTHER -> GenerateAnswered(c, resp)
    /\ last' = Step("response", c, resp)
    /\ UNCHANGED <<clientVars, selectedDeckId, currentCard, loadingCard, submitting,
                   sessionCount, error, infoMessage, showAnswer, profileVars,
                   deckFormVars, route>>

\* the auth state and the decks panel
HomeNext ==
    \/ \E res \in UserResults : \E c \in BagToSet(pending) : BootStep(c, res)
    \/ \E u \in BOOLEAN : AuthChange(u)
    \/ HomeReloadClick
    \/ \E value \in Titles : SetDeckTitle(value)
    \/ CreateDeckClick
    \/ ToastClose
    \/ \E prov \in ProviderResults : \E c \in BagToSet(pending) : HomeSession(c, prov)
    \/ \E c \in BagToSet(pending) : \E resp \in HomeResponses(c) : HomeResponse(c, resp)

\* the generator panel, which shares only the toast with the decks panel
GeneratorNext ==
    \/ \E value \in Texts : SetText(value)
    \/ HomeGenerateClick
    \/ ClearClick
    \/ ToastClose
    \/ \E c \in BagToSet(pending) : \E resp \in HomeResponses(c) : HomeResponse(c, resp)

(***************************************************************************)
(* Specifications.                                                         *)
(***************************************************************************)
\* the useState defaults of the cells of a page that is not mounted
DeckFormUnmounted ==
    /\ loading = TRUE
    /\ newTitle = <<>>
    /\ creating = FALSE
HomeUnmounted ==
    /\ text = <<>>
    /\ cards = <<>>
    /\ loadingAI = FALSE
    /\ errorAI = NoMessage
    /\ deckTitle = <<>>
    /\ creatingDeck = FALSE
    /\ errorDecks = NoMessage
    /\ toast = NoToast

\* the client alone: no page is mounted
ClientInit ==
    /\ call = Idle
    /\ wire = NoReq
    /\ outcome = NoOutcome
    /\ signedOut = FALSE
    /\ route = Origin
    /\ decks = <<>>
    /\ selectedDeckId = NoDeck
    /\ loadingDecks = FALSE
    /\ currentCard = NoCard
    /\ loadingCard = FALSE
    /\ submitting = FALSE
    /\ sessionCount = 0
    /\ error = NoMessage
    /\ infoMessage = NoMessage
    /\ showAnswer = FALSE
    /\ pending = EmptyBag
    /\ last = Step("none", NoCall, NoResp)
    /\ pageVariant = "profile"
    /\ user = FALSE
    /\ selectedFile = NoFile
    /\ uploading = FALSE
    /\ uploadError = NoMessage
    /\ uploadMessage = NoUploadMessage
    /\ uploadedFiles = <<>>
    /\ aiError = NoMessage
    /\ aiStatus = NoStatus
    /\ generatingDeckId = NoDeckId
    /\ upload = NoFile
    /\ jobs = EmptyBag
    /\ DeckFormUnmounted
    /\ HomeUnmounted

ClientSpec == ClientInit /\ [][ClientNext]_vars

\* ReviewPage mounted: the useState defaults, and loadDecks() run by its effect
Init ==
    /\ call = Idle
    /\ wire = NoReq
    /\ outcome = NoOutcome
    /\ signedOut = FALSE
    /\ route = Origin
    /\ decks = <<>>
    /\ selectedDeckId = NoDeck
    /\ loadingDecks = TRUE
    /\ currentCard = NoCard
    /\ loadingCard = FALSE
    /\ submitting = FALSE
    /\ sessionCount = 0
    /\ error = NoMessage
    /\ infoMessage = NoMessage
    /\ showAnswer = FALSE
    /\ pending = SetToBag({DecksCall})
    /\ last = Step("mount", DecksCall, NoResp)
    /\ pageVariant = "profile"
    /\ user = FALSE
    /\ selectedFile = NoFile
    /\ uploading = FALSE
    /\ uploadError = NoMessage
    /\ uploadMessage = NoUploadMessage
    /\ uploadedFiles = <<>>
    /\ aiError = NoMessage
    /\ aiStatus = NoStatus
    /\ generatingDeckId = NoDeckId
    /\ upload = NoFile
    /\ jobs = EmptyBag
    /\ DeckFormUnmounted
    /\ HomeUnmounted

Spec == Init /\ [][Next]_vars

\* the page with its callbacks also invoked directly
CallbackSpec == Init /\ [][CallbackNext]_vars

\* HomePage mounted: the useState defaults, and boot() run by its effect
HomeInit ==
    /\ call = Idle
    /\ wire = NoReq
    /\ outcome = NoOutcome
    /\ signedOut = FALSE
    /\ route = Origin
    /\ decks = <<>>
    /\ selectedDeckId = NoDeck
    /\ loadingDecks = FALSE
    /\ currentCard = NoCard
    /\ loadingCard = FALSE
    /\ submitting = FALSE
    /\ sessionCount = 0
    /\ error = NoMessage
    /\ infoMessage = NoMessage
    /\ showAnswer = FALSE
    /\ pending = SetToBag({BootCall})
    /\ last = Step("mount", BootCall, NoResp)
    /\ pageVariant = "home"
    /\ user = FALSE
    /\ selectedFile = NoFile
    /\ uploading = FALSE
    /\ uploadError = NoMessage
    /\ uploadMessage = NoUploadMessage
    /\ uploadedFiles = <<>>
    /\ aiError = NoMessage
    /\ aiStatus = NoStatus
    /\ generatingDeckId = NoDeckId
    /\ upload = NoFile
    /\ jobs = EmptyBag
    /\ DeckFormUnmounted
    /\ HomeUnmounted

HomeSpec == HomeInit /\ [][HomeNext]_vars

\* the home page with only its generator panel used
GeneratorSpec == HomeInit /\ [][GeneratorNext]_vars

\* a copy of ProfilePage mounted: the useState defaults, and load() run by its effect
ProfileLoadInit ==
    /\ call = Idle
    /\ wire = NoReq
    /\ outcome = NoOutcome
    /\ signedOut = FALSE
    /\ route = Origin
    /\ decks = <<>>
    /\ selectedDeckId = NoDeck
    /\ loadingDecks = FALSE
    /\ currentCard = NoCard
    /\ loadingCard = FALSE
    /\ submitting = FALSE
    /\ sessionCount = 0
    /\ error = NoMessage
    /\ infoMessage = NoMessage
    /\ showAnswer = FALSE
    /\ pending = SetToBag({LoadCall})
    /\ last = Step("mount", LoadCall, NoResp)
    /\ pageVariant \in ProfileVariants
    /\ user = FALSE
    /\ selectedFile = NoFile
    /\ uploading = FALSE
    /\ uploadError = NoMessage
    /\ uploadMessage = NoUploadMessage
    /\ uploadedFiles = <<>>
    /\ aiError = NoMessage
    /\ aiStatus = NoStatus
    /\ generatingDeckId = NoDeckId
    /\ upload = NoFile
    /\ jobs = EmptyBag
    /\ loading = TRUE
    /\ newTitle = <<>>
    /\ creating = FALSE
    /\ HomeUnmounted

ProfileLoadSpec == ProfileLoadInit /\ [][ProfileLoadNext]_vars

\* a copy of ProfilePage after its mount effect has loaded the user
ProfileInit ==
    /\ call = Idle
    /\ wire = NoReq
    /\ outcome = NoOutcome
    /\ signedOut = FALSE
    /\ route = Origin
    /\ decks = <<>>
    /\ selectedDeckId = NoDeck
    /\ loadingDecks = FALSE
    /\ currentCard = NoCard
    /\ loadingCard = FALSE
    /\ submitting = FALSE
    /\ sessionCount = 0
    /\ error = NoMessage
    /\ infoMessage = NoMessage
    /\ showAnswer = FALSE
    /\ pending = EmptyBag
    /\ last = Step("mount", NoCall, NoResp)
    /\ pageVariant \in ProfileVariants
    /\ user = TRUE
    /\ selectedFile = NoFile
    /\ uploading = FALSE
    /\ uploadError = NoMessage
    /\ uploadMessage = NoUploadMessage
    /\ uploadedFiles = <<>>
    /\ aiError = NoMessage
    /\ aiStatus = NoStatus
    /\ generatingDeckId = NoDeckId
    /\ upload = NoFile
    /\ jobs = EmptyBag
    /\ DeckFormUnmounted
    /\ HomeUnmounted

ProfileSpec == ProfileInit /\ [][ProfileNext]_vars

(***************************************************************************)
(* Claims about the client (ClientSpec).                                   *)
(***************************************************************************)
\* the call has read the session
SessionWasRead == call.pc \in {"fetch", "done"} /\ call.prov # NoProv
\* the provider reported no session and no error
ReportsNoToken == call.prov = [session |-> NoToken, error |-> NoError]

\* C1: a call of a session-guarded client made while the provider reports no
\* session token ends without a request on the wire, at /login, having raised
\* the "no session" failure.
C1_NoTokenNoDispatch ==
    (SessionWasRead /\ call.variant \in Guarded /\ ReportsNoToken)
        => /\ call.pc = "done"
           /\ wire = NoReq
           /\ route = Login
           /\ outcome = [raise |-> ErrNoSession, ret |-> NoResp]

C1_Witness ==
    /\ SessionWasRead /\ ReportsNoToken
    /\ call.variant = "reviewAuthed" /\ call.path = "/review/answer"
    /\ wire = NoReq /\ route = Login /\ outcome.raise = ErrNoSession

BearerPaths ==
    {"/decks/", "/decks/{id}", "/decks/{id}/cards", "/review/next",
     "/review/answer", "/stats/overview"}

\* C4: every request on the wire to an endpoint that requires a bearer token
\* carries the Authorization header with the session token read for the call.
C4_BearerOnProtectedRequests ==
    (call.pc \in {"fetch", "done"} /\ wire # NoReq /\ wire.path \in BearerPaths)
        => /\ wire.auth \in Tokens
           /\ wire.auth = call.prov.session

\* the client copies C5 is about: the pages' apiFetch / apiFetchAuthed and lib apiFetch
C5_Clients == {"reviewAuthed", "profileFetch", "localeProfileFetch", "libApiFetch"}

\* C5: the request gets Content-Type application/json from the client exactly
\* when the body is a plain string and the caller set none; a Content-Type of
\* the caller stays, and a FormData or Blob body never gets the JSON type.
C5_JsonOnlyForStringBodies ==
    (call.pc \in {"fetch", "done"} /\ wire # NoReq /\ call.variant \in C5_Clients)
        => /\ call.ct = NoCT => (wire.ctype = JsonCT <=> IsString(call.body))
           /\ call.ct # NoCT => wire.ctype = call.ct
           /\ (call.body \in {"FormData", "Blob"} /\ call.ct = NoCT)
                  => wire.ctype # JsonCT

\* C6: a session-guarded client hands every response that is not a 401 back
\* to its caller, raising nothing and staying on the page; a transport error
\* reaches the caller as it was raised, and the browser stays on the page.
C6_Non401ReturnedRaw ==
    (call.pc = "done" /\ call.variant \in Guarded /\ call.resp # NoResp)
        => IF call.resp = NetErr
           THEN outcome = [raise |-> ErrNetwork, ret |-> NoResp] /\ route = Origin
           ELSE call.resp.status # 401
                    => outcome = [raise |-> NoFailure, ret |-> call.resp]
                       /\ route = Origin

C6_Witness ==
    /\ call.pc = "done" /\ call.variant = "reviewAuthed"
    /\ call.resp = Http(403)
    /\ outcome.ret = Http(403) /\ route = Origin


(***************************************************************************)
(* Claims about the review page (Spec, CallbackSpec).                      *)
(***************************************************************************)
\* the step just taken got the response of a call with this status
Responded(step, status) ==
    step.ev = "response" /\ step.resp.kind = "http" /\ step.resp.status = status

\* C2: when the response of a call is a 401, whatever its payload, the page is
\* sent to /login with the "unauthorized" failure as its error, and nothing of
\* the response is stored: load decks ends without decks or selection, load
\* next card without a card, submit grade with the card and the counter it had.
C2_UnauthorizedStoresNothing ==
    [][Responded(last', 401)
          => /\ error' = ErrUnauthorized
             /\ route' = Login
             /\ sessionCount' = sessionCount
             /\ last'.call.kind = "decks" => decks' = <<>> /\ selectedDeckId' = NoDeck
             /\ last'.call.kind = "next" => currentCard' = NoCard
             /\ last'.call.kind = "answer" => currentCard' = currentCard]_vars

C2_Witness ==
    /\ Responded(last, 401)
    /\ last.call.kind = "answer"
    /\ last.resp.data # NoCard
    /\ currentCard \notin {NoCard, last.resp.data}
    /\ error = ErrUnauthorized
    /\ route = Login

\* the step just taken settled a card load or a grade submission that was
\* made for another deck than the one selected before the step
StaleSettled(step, selected) ==
    /\ step.ev \in {"session", "response"}
    /\ step.call.kind \in {"next", "answer"}
    /\ step.call.deck # selected

\* C7: switching to another deck clears the displayed card and resets the
\* graded counter to 0, and a card load or grade submission made for the deck
\* selected before, settling after the switch, neither displays its card nor
\* counts.
C7_SwitchClearsForGood ==
    [][/\ selectedDeckId' \notin {selectedDeckId, NoDeck}
              => currentCard' = NoCard /\ sessionCount' = 0
       /\ (StaleSettled(last', selectedDeckId) /\ pending' # pending)
              => /\ currentCard' \in {NoCard, currentCard}
                 /\ sessionCount' = sessionCount]_vars

\* C8: a displayed card was returned by a request made for the deck that is
\* selected now.
C8_OnlyLatestSelectionShown ==
    currentCard # NoCard => currentCard.deck = selectedDeckId

\* the calls that write the current-card slot
CardCalls == {c \in BagToSet(pending) : c.kind \in {"next", "answer"}}

\* C9: at most one load-next-card or submit-grade call is pending at any time.
C9_OneCardCallAtATime ==
    \A c \in CardCalls : CardCalls = {c} /\ CopiesIn(c, pending) = 1

\* C10: handleAnswer called without a displayed card or without a selected deck
\* does nothing: no call is started, and card, counter, messages, answer
\* visibility, busy flags and route stay as they were.
C10_HandleAnswerNoOp ==
    [][(last'.ev = "handleAnswer" /\ (currentCard = NoCard \/ selectedDeckId = NoDeck))
          => UNCHANGED <<pageVars, pending, route>>]_vars

C10_Witness ==
    /\ last.ev = "handleAnswer"
    /\ last.call = NoCall
    /\ currentCard = NoCard
    /\ selectedDeckId # NoDeck
    /\ ~submitting

\* the step just taken displayed a card the backend returned: the response of
\* a card load or of a grade submission, a 200 with a card in it
CardArrived(step) ==
    /\ Responded(step, 200)
    /\ step.call.kind \in {"next", "answer"}
    /\ step.resp.data # NoCard

\* C11: revealing or hiding the answer starts no call and changes nothing but
\* the answer-visibility flag; and whenever a card load or a grade response
\* displays a card, its answer is hidden at that moment.
C11_ToggleLocalNewCardHidden ==
    [][/\ last'.ev = "toggle"
              => /\ pending' = pending
                 /\ route' = route
                 /\ UNCHANGED <<decks, selectedDeckId, loadingDecks, currentCard,
                                loadingCard, submitting, sessionCount, error,
                                infoMessage>>
       /\ CardArrived(last') => (currentCard' = last'.resp.data /\ ~showAnswer')]_vars

\* the step just taken was load decks succeeding: a 200 with the deck list
DecksArrived(step) == Responded(step, 200) /\ step.call.kind = "decks"

\* a load-next-card call for the deck was started in the step
CardRequested(deck, before, after) ==
    CopiesIn(NextCall(deck), after) = CopiesIn(NextCall(deck), before) + 1

\* no call was started in the step: the settled call left, nothing else changed
NothingRequested(step, before, after) == after = Remove(before, [step.call EXCEPT !.pc = "fetch"])

\* load decks succeeding with an empty list: no decks, no deck selected, no
\* card request, and the load sets no error
NoDecksState(step) ==
    /\ decks' = <<>>
    /\ selectedDeckId' = NoDeck
    /\ NothingRequested(step, pending, pending')
    /\ error' = error

CallFailed(step, kind, before, after) ==
    /\ step.call.kind = kind
    /\ \/ /\ step.ev = "session"
          /\ BagCardinality(after) < BagCardinality(before)
       \/ /\ step.ev = "response"
          /\ (step.resp = NetErr \/ ~ResOk(step.resp))

\* C13: when load decks fails, the page ends with an error message, an empty
\* deck list and no selected deck, whatever decks were displayed before.
C13_FailedDecksLoadClearsDecks ==
    [][CallFailed(last', "decks", pending, pending')
          => /\ error' # NoMessage
             /\ decks' = <<>>
             /\ selectedDeckId' = NoDeck
             /\ ~loadingDecks']_vars

C13_Witness ==
    /\ last.ev = "response"
    /\ last.call.kind = "decks"
    /\ last.resp = HttpData(500, <<>>)
    /\ decks = <<>>
    /\ selectedDeckId = NoDeck
    /\ currentCard # NoCard
    /\ error = HttpError("decks", 500)

\* the step just taken was load next card succeeding: a 200 with {card: ...}
NextArrived(step) == Responded(step, 200) /\ step.call.kind = "next"

\* C14: load next card without a selected deck starts no call; when the server
\* answers {card: null} the card is cleared, the "no due cards" message is set
\* and the error message is empty; when it returns a card, that card is
\* displayed with its answer hidden and no informational message.
C14_NextCardOutcomes ==
    [][/\ (last'.ev = "loadNextCard" /\ selectedDeckId = NoDeck)
              => pending' = pending
       /\ (NextArrived(last') /\ last'.resp.data = NoCard)
              => /\ currentCard' = NoCard
                 /\ infoMessage' = InfoNoDue
                 /\ error' = NoMessage
       /\ (NextArrived(last') /\ last'.resp.data # NoCard)
              => /\ currentCard' = last'.resp.data
                 /\ ~showAnswer'
                 /\ infoMessage' = NoMessage]_vars

\* the step just taken was a grade submission succeeding: a 200 with {next_card: ...}
AnswerArrived(step) == Responded(step, 200) /\ step.call.kind = "answer"

\* C15: when a grade submission succeeds with a next card, that card becomes
\* the displayed card, its answer is hidden, and the graded counter is one
\* more than it was when the grade was submitted.
C15_GradedNextCardCounted ==
    [][(AnswerArrived(last') /\ last'.resp.data # NoCard)
          => /\ currentCard' = last'.resp.data
             /\ ~showAnswer'
             /\ sessionCount' = last'.call.count + 1]_vars

C17_FailedGradeKeepsCard ==
    [][CallFailed(last', "answer", pending, pending')
          => /\ error' # NoMessage
             /\ currentCard' = last'.call.card
             /\ sessionCount' = last'.call.count
             /\ ~submitting']_vars

\* the busy flag of an action is false after the step
NotBusy(kind) ==
    CASE kind = "decks" -> ~loadingDecks'
      [] kind = "next" -> ~loadingCard'
      [] OTHER -> ~submitting'

\* the control that repeats the action is rendered and enabled after the step:
\* "Reload decks", "Load next" / "Refresh current", a grade button
RetryEnabled(kind) ==
    CASE kind = "decks" -> ~loadingDecks'
      [] kind = "next" -> selectedDeckId' # NoDeck /\ ~loadingCard'
      [] OTHER -> /\ ~loadingCard' /\ currentCard' # NoCard
                  /\ ~submitting' /\ selectedDeckId' # NoDeck

\* C18: a failed load decks, load next card or submit grade starts no call of
\* its own (nothing is retried), its busy flag is false again, and the control
\* that repeats the action is enabled.
C18_FailureLeavesRetryToUser ==
    [][\A kind \in {"decks", "next", "answer"} :
          CallFailed(last', kind, pending, pending')
              => /\ pending' = Remove(pending, last'.call)
                 /\ NotBusy(kind)
                 /\ RetryEnabled(kind)]_vars

(***************************************************************************)
(* Claims about the profile page (ProfileSpec).                            *)
(***************************************************************************)
\* the names whose lower-cased form ends with an extension the page accepts:
\* n.txt and N.TXT, and n.png on the locale copy
C19_AcceptedNames(variant) ==
    {<<"n", ".", "t", "x", "t">>, <<"N", ".", "T", "X", "T">>}
        \cup IF variant = "localeProfile" THEN {<<"n", ".", "p", "n", "g">>} ELSE {}

\* C19: handleFileUpload rejects a file whose lower-cased name does not end
\* with an accepted extension before any storage or network call: the upload
\* error is set, the list of uploaded files is unchanged, no upload or
\* generation is started, and the uploading flag is false afterwards.
C19_BadExtensionRejected ==
    [][(/\ last'.ev = "handleFileUpload"
        /\ last'.call.file.name \notin C19_AcceptedNames(pageVariant))
          => /\ uploadError' # NoMessage
             /\ uploadedFiles' = uploadedFiles
             /\ upload' = NoFile
             /\ jobs' = jobs
             /\ ~uploading']_vars

C19_Witness ==
    /\ last.ev = "handleFileUpload"
    /\ last.call.file.name = <<"n", ".", "x", "l", "s", "x">>
    /\ uploadError = ErrUnsupported
    /\ Len(uploadedFiles) = 1
    /\ upload = NoFile
    /\ ~uploading

\* C20: every card on the wire to POST /decks/{id}/cards has a question of 1
\* to 500 characters and an answer of 1 to 2000 characters, whatever the AI
\* service returned.
C20_PostedCardsClamped ==
    \A j \in BagToSet(jobs) :
        j.body # NoPost
            => /\ length(j.body.question) \in 1..500
               /\ length(j.body.answer) \in 1..2000
               /\ ~j.body.question[1].blank
               /\ ~j.body.answer[1].blank

C20_Witness ==
    \E j \in BagToSet(jobs) :
        /\ j.pc = "post-fetch"
        /\ Head(j.cards) = AiCard(<<Text(501)>>, <<Text(2001)>>)
        /\ j.body.question = <<Text(500)>>
        /\ j.body.answer = <<Text(2000)>>

(***************************************************************************)
(* ReviewPage: busy flags, deck changes, counter and card (C21, C22, C26,  *)
(* C27).                                                                   *)
(***************************************************************************)
\* a call of this kind has been started and has not reached its finally
InFlight(kind) == \E c \in BagToSet(pending) : c.kind = kind

\* C21: each busy flag is true exactly while a call of its action type is in
\* flight: loadingDecks with a decks load, loadingCard with a card load,
\* submitting with a grade submission.
C21_BusyFlagsTrackCalls ==
    /\ loadingDecks <=> InFlight("decks")
    /\ loadingCard <=> InFlight("next")
    /\ submitting <=> InFlight("answer")

\* the step started a card load for this deck
Started(deck) ==
    CopiesIn(NextCall(deck), pending') = CopiesIn(NextCall(deck), pending) + 1

\* C22: every change of the selected deck to a different non-empty id clears
\* the error and the informational message and starts a /review/next call for
\* the newly selected deck, and none for any other deck.
C22_DeckChangeLoadsNewDeck ==
    [][selectedDeckId' \notin {selectedDeckId, NoDeck}
           => /\ error' = NoMessage
              /\ infoMessage' = NoMessage
              /\ Started(selectedDeckId')
              /\ \A deck \in DeckIds \ {selectedDeckId'} :
                     CopiesIn(NextCall(deck), pending')
                         <= CopiesIn(NextCall(deck), pending)]_vars

\* the user switched decks while the card load of the previous deck was still
\* pending, and the load for the new deck has been started
C22_Witness ==
    /\ last.ev = "select"
    /\ CopiesIn(NextCall(selectedDeckId), pending) = 1
    /\ \E c \in BagToSet(pending) : c.kind = "next" /\ c.deck # selectedDeckId

\* C26: the graded counter counts the successful grade submissions of the
\* selected deck since it was selected: a change to another deck sets it to 0;
\* a submission succeeding for the selected deck adds at most one; a failed
\* submission, a submission made for a deck selected before, and every other
\* step that keeps the selection leave it as it was.
C26_CounterCountsSelectedDeck ==
    [][IF selectedDeckId' \notin {selectedDeckId, NoDeck}
       THEN sessionCount' = 0
       ELSE IF AnswerArrived(last') /\ last'.call.deck = selectedDeckId
       THEN sessionCount' \in {sessionCount, sessionCount + 1}
       ELSE sessionCount' = sessionCount]_vars

\* C27: a displayed card implies a selected deck: the current card is never
\* non-null while the selected deck id is empty.
C27_CardImpliesDeck == currentCard # NoCard => selectedDeckId # NoDeck

(***************************************************************************)
(* Empty results (C23).                                                    *)
(***************************************************************************)
\* the step just taken gave a call of this kind a successful answer with
\* this payload
EmptyResult(step, kind, data) ==
    /\ step.ev = "response"
    /\ step.call.pc = "fetch"
    /\ step.call.kind = kind
    /\ step.resp = HttpData(200, data)

\* C23: an empty result is no error: when the AI answers with zero cards
\* (profile page, home page), when the deck list arrives empty and when the
\* next-card answer is {card: null} (review page), the error state of the page
\* (aiError, errorAI, error) is empty after the step.
C23_EmptyResultsAreNoErrors ==
    [][/\ (last'.ev = "ai" /\ last'.resp = HttpData(200, <<>>)) => aiError' = NoMessage
       /\ EmptyResult(last', "generate", <<>>) => errorAI' = NoMessage
       /\ (pageVariant # "home" /\ EmptyResult(last', "decks", <<>>))
              => error' = NoMessage
       /\ EmptyResult(last', "next", NoCard) => error' = NoMessage]_vars

(***************************************************************************)
(* getSessionSafe / getUserSafe in the locale profile page (C25).          *)
(***************************************************************************)
\* the step just taken read the user (ev "user") or the session (ev
\* "session") through lib/supabaseSession.js and the provider reported an error
SafeReadFailed(step, ev) ==
    /\ pageVariant = "localeProfile"
    /\ step.ev = ev
    /\ step.resp.error # NoError

\* C25: when the provider fails with a refresh-token error, getUserSafe /
\* getSessionSafe sign out and return no user / no session and no error, and
\* the caller takes its "no session" path (/login; apiFetch raises "no
\* session"); any other provider error comes back to the caller with no user /
\* no session, without a sign-out, and apiFetch raises the provider's message.
C25_RefreshFailureSignsOut ==
    [][/\ SafeReadFailed(last', "user")
              => /\ getUserSafe(last'.resp).user = FALSE
                 /\ route' = Login
                 /\ error' = error
                 /\ IF isRefreshTokenError(last'.resp.error)
                    THEN signedOut' /\ getUserSafe(last'.resp).error = NoError
                    ELSE /\ signedOut' = signedOut
                         /\ getUserSafe(last'.resp).error = last'.resp.error
       /\ SafeReadFailed(last', "session")
              => /\ getSessionSafe(last'.resp).session = NoToken
                 /\ last'.call \notin BagToSet(pending')
                 /\ IF isRefreshTokenError(last'.resp.error)
                    THEN /\ signedOut'
                         /\ getSessionSafe(last'.resp).error = NoError
                         /\ route' = Login
                         /\ error' = ErrNoSession
                    ELSE /\ signedOut' = signedOut
                         /\ getSessionSafe(last'.resp).error = last'.resp.error
                         /\ route' = route
                         /\ error' = last'.resp.error]_vars

\* the deck form's apiFetch met a refresh-token error: signed out, on /login,
\* with the "no session" message
C25_Witness ==
    /\ pageVariant = "localeProfile"
    /\ last.ev = "session"
    /\ last.call.kind = "create"
    /\ isRefreshTokenError(last.resp.error)
    /\ signedOut
    /\ route = Login
    /\ error = ErrNoSession

(***************************************************************************)
(* Validation of required fields (C24).                                    *)
(***************************************************************************)
\* the step just taken ran this handler and it returned at its validation
Rejected(step, handler) == step.ev = handler /\ step.call = NoCall

\* C24: a handler run with its required field blank (the deck title of
\* handleCreateDeck, the study text of handleGenerate) starts no call and
\* leaves an inline error message: errorDecks / errorAI on the home page, error
\* on the profile page.
C24_BlankFieldRejectedInline ==
    [][/\ Rejected(last', "handleCreateDeck")
              => /\ pending' = pending
                 /\ IF pageVariant = "home"
                    THEN errorDecks' # NoMessage
                    ELSE error' # NoMessage
       /\ Rejected(last', "handleGenerate")
              => /\ pending' = pending
                 /\ errorAI' # NoMessage]_vars

(***************************************************************************)
(* The count reported by handleGenerateFromUpload (C29).                   *)
(***************************************************************************)
\* the step just taken ended a call of handleGenerateFromUpload with its
\* success status
GenerateSucceeded(step, status) ==
    /\ step.ev = "response"
    /\ step.call.pc = "refresh-fetch"
    /\ status # NoStatus

\* C29: when handleGenerateFromUpload ends with its success status, the count
\* in the status is the number of the call's POST /decks/{id}/cards requests
\* that came back with a success status.
C29_ReportedCountIsSavedCount ==
    [][GenerateSucceeded(last', aiStatus')
          => aiStatus' = Generated(last'.call.saved, last'.call.deck)]_vars

(***************************************************************************)
(* HomePage: the deck list of a signed-out user (C28).                     *)
(***************************************************************************)
\* C28: on the home page the deck list is empty whenever the auth state is
\* signed out.
C28_SignedOutNoDecks == ~user => decks = <<>>


====
